---- MODULE Spec2Model ----
(***************************************************************************)
(* Model of src/slug.py: resolve_field_value, random_string_generator and *)
(* generate_unique_slug, together with the record store they query and    *)
(* the callers that assign and save the returned slug.                    *)
(*                                                                         *)
(* Strings are sequences of one-character strings, so that slicing,       *)
(* splitting, prefix tests and concatenation are computed as Python       *)
(* computes them.                                                          *)
(***************************************************************************)
EXTENDS Integers, Sequences, FiniteSets, TLC

\* ------------------------------------------------------------------ bounds

\* Largest max_length a caller passes (max_length ranges over 1..MaxLen).
MaxLen == 3

\* Largest random_digits_size a caller passes (0..MaxSuffix).
MaxSuffix == 1

\* Largest number of rows the record store holds.
MaxRecords == 2

\* The draw counter of a call saturates here (it only tells 0, 1, "more").
MaxDraws == 2

\* ------------------------------------------------------- Python primitives

Min(a, b) == IF a < b THEN a ELSE b

Max(a, b) == IF a > b THEN a ELSE b

\* s[:n] of Python: the first n items for n >= 0, all but the last -n items
\* for n < 0.
SliceTo(s, n) ==
    IF n >= 0 THEN SubSeq(s, 1, Min(n, Len(s)))
    ELSE SubSeq(s, 1, Max(Len(s) + n, 0))

\* s[n:] of Python for n >= 0.
SliceFrom(s, n) == SubSeq(s, Min(n, Len(s)) + 1, Len(s))

\* s.startswith(p); also the store's  <field>__startswith=p  lookup.
StartsWith(s, p) == Len(p) <= Len(s) /\ SubSeq(s, 1, Len(p)) = p

\* The set of items of a sequence.
Range(s) == {s[i] : i \in 1..Len(s)}

\* str.split(sep) for a non-empty separator: left to right, no overlap.
RECURSIVE SplitFrom(_, _, _)
SplitFrom(s, sep, cur) ==
    IF s = <<>> THEN <<cur>>
    ELSE IF StartsWith(s, sep)
         THEN <<cur>> \o SplitFrom(SliceFrom(s, Len(sep)), sep, <<>>)
         ELSE SplitFrom(Tail(s), sep, Append(cur, Head(s)))

Split(s, sep) == SplitFrom(s, sep, <<>>)

Digits == <<"0", "1", "2", "3", "4", "5", "6", "7", "8", "9">>

\* str(n) for an int n: its decimal digits, after the sign when n < 0.
RECURSIVE IntToStr(_)
IntToStr(n) ==
    IF n < 0 THEN <<"-">> \o IntToStr(-n)
    ELSE IF n < 10 THEN <<Digits[n + 1]>>
    ELSE Append(IntToStr(n \div 10), Digits[(n % 10) + 1])

\* ------------------------------------------------------------ normalizer

UpperLetters ==
    <<"A", "B", "C", "D", "E", "F", "G", "H", "I", "J", "K", "L", "M",
      "N", "O", "P", "Q", "R", "S", "T", "U", "V", "W", "X", "Y", "Z">>

LowerLetters ==
    <<"a", "b", "c", "d", "e", "f", "g", "h", "i", "j", "k", "l", "m",
      "n", "o", "p", "q", "r", "s", "t", "u", "v", "w", "x", "y", "z">>

\* \s of the regular expressions on ASCII text: the space, \t, \n, \r, \f,
\* the vertical tab U+000B and the separators U+001C-U+001F (the last five
\* are written as the characters themselves).
Blanks == {" ", "\t", "\n", "\r", "\f", "", "", "", "", ""}

\* unicodedata.normalize("NFKD", ch).encode("ascii", "ignore") for the
\* characters of Latin-1 Supplement (U+0080-U+00FF, the non-ASCII characters
\* a TLA+ string can hold) that leave ASCII behind: the compatibility
\* decomposition without its non-ASCII marks.
Decompositions ==
    {
      [to |-> <<" ">>, from |-> {" ", "¨", "¯", "´", "¸"}],
      [to |-> <<"1">>, from |-> {"¹"}],
      [to |-> <<"1", "2">>, from |-> {"½"}],
      [to |-> <<"1", "4">>, from |-> {"¼"}],
      [to |-> <<"2">>, from |-> {"²"}],
      [to |-> <<"3">>, from |-> {"³"}],
      [to |-> <<"3", "4">>, from |-> {"¾"}],
      [to |-> <<"A">>, from |-> {"À", "Á", "Â", "Ã", "Ä", "Å"}],
      [to |-> <<"C">>, from |-> {"Ç"}],
      [to |-> <<"E">>, from |-> {"È", "É", "Ê", "Ë"}],
      [to |-> <<"I">>, from |-> {"Ì", "Í", "Î", "Ï"}],
      [to |-> <<"N">>, from |-> {"Ñ"}],
      [to |-> <<"O">>, from |-> {"Ò", "Ó", "Ô", "Õ", "Ö"}],
      [to |-> <<"U">>, from |-> {"Ù", "Ú", "Û", "Ü"}],
      [to |-> <<"Y">>, from |-> {"Ý"}],
      [to |-> <<"a">>, from |-> {"ª", "à", "á", "â", "ã", "ä", "å"}],
      [to |-> <<"c">>, from |-> {"ç"}],
      [to |-> <<"e">>, from |-> {"è", "é", "ê", "ë"}],
      [to |-> <<"i">>, from |-> {"ì", "í", "î", "ï"}],
      [to |-> <<"n">>, from |-> {"ñ"}],
      [to |-> <<"o">>, from |-> {"º", "ò", "ó", "ô", "õ", "ö"}],
      [to |-> <<"u">>, from |-> {"ù", "ú", "û", "ü"}],
      [to |-> <<"y">>, from |-> {"ý", "ÿ"}] }

\* The characters that decompose.
Decomposed == UNION {d.from : d \in Decompositions}

\* The characters of Latin-1 Supplement that leave nothing: the controls
\* U+0080-U+009F (written as the characters themselves) and the signs and
\* letters without an ASCII decomposition.
NonAsciiDropped ==
    {
      "", "", "", "", "", "", "", "", "", "", "", "", "", "",
      "", "", "", "", "", "", "", "", "", "", "", "", "", "",
      "", "", "", "", "¡", "¢", "£", "¤", "¥", "¦", "§", "©", "«", "¬",
      "­", "®", "°", "±", "µ", "¶", "·", "»", "¿", "Æ", "Ð", "×", "Ø", "Þ",
      "ß", "æ", "ð", "÷", "ø", "þ" }

\* NFKD and the ASCII encoding that ignores errors, on one character: every
\* ASCII character, the controls included, stays as it is.
ToAscii(ch) ==
    IF ch \in NonAsciiDropped THEN <<>>
    ELSE IF ch \in Decomposed
         THEN (CHOOSE d \in Decompositions : ch \in d.from).to
         ELSE <<ch>>

\* unicodedata.normalize("NFKD", value).encode("ascii", "ignore").decode("ascii")
RECURSIVE NormalizeAscii(_)
NormalizeAscii(s) ==
    IF s = <<>> THEN <<>> ELSE ToAscii(Head(s)) \o NormalizeAscii(Tail(s))

\* str.lower() on one ASCII character.
LowerChar(ch) ==
    IF \E i \in 1..Len(UpperLetters) : UpperLetters[i] = ch
    THEN LowerLetters[CHOOSE i \in 1..Len(UpperLetters) : UpperLetters[i] = ch]
    ELSE ch

\* \w of the regular expressions, on lowercased ASCII text.
IsWordChar(ch) == ch \in Range(LowerLetters) \cup Range(Digits) \cup {"_"}

\* \s of the regular expressions, on ASCII text.
IsSpaceChar(ch) == ch \in Blanks

\* re.sub(r"[^\w\s-]", "", value.lower())
RECURSIVE KeepSlugChars(_)
KeepSlugChars(s) ==
    IF s = <<>> THEN <<>>
    ELSE LET ch == LowerChar(Head(s))
         IN  IF IsWordChar(ch) \/ IsSpaceChar(ch) \/ ch = "-"
             THEN <<ch>> \o KeepSlugChars(Tail(s))
             ELSE KeepSlugChars(Tail(s))

\* re.sub(r"[-\s]+", "-", value): every run of hyphens and blanks becomes
\* one hyphen. inRun says that the previous character belonged to a run.
RECURSIVE JoinWords(_, _)
JoinWords(s, inRun) ==
    IF s = <<>> THEN <<>>
    ELSE IF Head(s) = "-" \/ IsSpaceChar(Head(s))
         THEN (IF inRun THEN <<>> ELSE <<"-">>) \o JoinWords(Tail(s), TRUE)
         ELSE <<Head(s)>> \o JoinWords(Tail(s), FALSE)

\* str.lstrip(chars)
RECURSIVE LStrip(_, _)
LStrip(s, chars) ==
    IF s # <<>> /\ Head(s) \in chars THEN LStrip(Tail(s), chars) ELSE s

\* str.rstrip(chars)
RECURSIVE RStrip(_, _)
RStrip(s, chars) ==
    IF s # <<>> /\ s[Len(s)] \in chars
    THEN RStrip(SubSeq(s, 1, Len(s) - 1), chars)
    ELSE s

\* django.utils.text.slugify (allow_unicode=False), as called on line 127:
\* reduce to ASCII, lowercase, drop what is neither a word character, a
\* blank nor a hyphen, join the words by single hyphens, strip leading and
\* trailing "-" and "_".
slugify(value) ==
    LET ascii == NormalizeAscii(value)
    IN  RStrip(LStrip(JoinWords(KeepSlugChars(ascii), FALSE), {"-", "_"}),
               {"-", "_"})

\* ------------------------------------------------------------ object graph

\* Python values: text, ints, None, plain objects whose attributes are
\* values, and the built-in methods that getattr binds on a text or an int.
StrVal(s) == [kind |-> "str", val |-> s]

IntVal(n) == [kind |-> "int", val |-> n]

ObjVal(cls, attrs) == [kind |-> "obj", cls |-> cls, attrs |-> attrs]

MethodVal(name, owner) == [kind |-> "method", name |-> name, owner |-> owner]

\* What a failed getattr yields: the AttributeError caught on line 88.
AttributeError == [kind |-> "AttributeError"]

\* The names a path can reach on a text (CPython 3.11): the methods of str
\* whose name holds no "__", bound to the text ...
StrMethodNames ==
    {
      <<"c", "a", "p", "i", "t", "a", "l", "i", "z", "e">>,
      <<"c", "a", "s", "e", "f", "o", "l", "d">>,
      <<"c", "e", "n", "t", "e", "r">>, <<"c", "o", "u", "n", "t">>,
      <<"e", "n", "c", "o", "d", "e">>,
      <<"e", "n", "d", "s", "w", "i", "t", "h">>,
      <<"e", "x", "p", "a", "n", "d", "t", "a", "b", "s">>,
      <<"f", "i", "n", "d">>, <<"f", "o", "r", "m", "a", "t">>,
      <<"f", "o", "r", "m", "a", "t", "_", "m", "a", "p">>,
      <<"i", "n", "d", "e", "x">>, <<"i", "s", "a", "l", "n", "u", "m">>,
      <<"i", "s", "a", "l", "p", "h", "a">>,
      <<"i", "s", "a", "s", "c", "i", "i">>,
      <<"i", "s", "d", "e", "c", "i", "m", "a", "l">>,
      <<"i", "s", "d", "i", "g", "i", "t">>,
      <<"i", "s", "i", "d", "e", "n", "t", "i", "f", "i", "e", "r">>,
      <<"i", "s", "l", "o", "w", "e", "r">>,
      <<"i", "s", "n", "u", "m", "e", "r", "i", "c">>,
      <<"i", "s", "p", "r", "i", "n", "t", "a", "b", "l", "e">>,
      <<"i", "s", "s", "p", "a", "c", "e">>,
      <<"i", "s", "t", "i", "t", "l", "e">>,
      <<"i", "s", "u", "p", "p", "e", "r">>, <<"j", "o", "i", "n">>,
      <<"l", "j", "u", "s", "t">>, <<"l", "o", "w", "e", "r">>,
      <<"l", "s", "t", "r", "i", "p">>,
      <<"p", "a", "r", "t", "i", "t", "i", "o", "n">>,
      <<"r", "e", "m", "o", "v", "e", "p", "r", "e", "f", "i", "x">>,
      <<"r", "e", "m", "o", "v", "e", "s", "u", "f", "f", "i", "x">>,
      <<"r", "e", "p", "l", "a", "c", "e">>, <<"r", "f", "i", "n", "d">>,
      <<"r", "i", "n", "d", "e", "x">>, <<"r", "j", "u", "s", "t">>,
      <<"r", "p", "a", "r", "t", "i", "t", "i", "o", "n">>,
      <<"r", "s", "p", "l", "i", "t">>, <<"r", "s", "t", "r", "i", "p">>,
      <<"s", "p", "l", "i", "t">>,
      <<"s", "p", "l", "i", "t", "l", "i", "n", "e", "s">>,
      <<"s", "t", "a", "r", "t", "s", "w", "i", "t", "h">>,
      <<"s", "t", "r", "i", "p">>,
      <<"s", "w", "a", "p", "c", "a", "s", "e">>,
      <<"t", "i", "t", "l", "e">>,
      <<"t", "r", "a", "n", "s", "l", "a", "t", "e">>,
      <<"u", "p", "p", "e", "r">>, <<"z", "f", "i", "l", "l">> }

\* ... and the static method, bound to the type.
StrTypeMethodNames == {<<"m", "a", "k", "e", "t", "r", "a", "n", "s">>}

\* The names a path can reach on an int (CPython 3.11): the methods bound to
\* the int, the class method bound to the type, and the four numbers.
IntMethodNames ==
    {
      <<"a", "s", "_", "i", "n", "t", "e", "g", "e", "r", "_", "r", "a", "t", "i", "o">>,
      <<"b", "i", "t", "_", "c", "o", "u", "n", "t">>,
      <<"b", "i", "t", "_", "l", "e", "n", "g", "t", "h">>,
      <<"c", "o", "n", "j", "u", "g", "a", "t", "e">>,
      <<"t", "o", "_", "b", "y", "t", "e", "s">> }

IntTypeMethodNames == {<<"f", "r", "o", "m", "_", "b", "y", "t", "e", "s">>}

IntSelfNames == {<<"r", "e", "a", "l">>, <<"n", "u", "m", "e", "r", "a", "t", "o", "r">>}

ImagName == <<"i", "m", "a", "g">>

DenominatorName == <<"d", "e", "n", "o", "m", "i", "n", "a", "t", "o", "r">>

StrOwner == <<"s", "t", "r">>

IntOwner == <<"i", "n", "t">>

TypeOwner == <<"t", "y", "p", "e">>

\* getattr(value, attr): the attributes of a plain object are its fields;
\* a text and an int have their built-in attributes; None and a built-in
\* method have none whose name holds no "__".
GetAttr(value, attr) ==
    CASE value.kind = "obj" ->
            IF attr \in DOMAIN value.attrs THEN value.attrs[attr]
            ELSE AttributeError
      [] value.kind = "str" ->
            IF attr \in StrMethodNames THEN MethodVal(attr, StrOwner)
            ELSE IF attr \in StrTypeMethodNames THEN MethodVal(attr, TypeOwner)
            ELSE AttributeError
      [] value.kind = "int" ->
            IF attr \in IntSelfNames THEN value
            ELSE IF attr = ImagName THEN IntVal(0)
            ELSE IF attr = DenominatorName THEN IntVal(1)
            ELSE IF attr \in IntMethodNames THEN MethodVal(attr, IntOwner)
            ELSE IF attr \in IntTypeMethodNames THEN MethodVal(attr, TypeOwner)
            ELSE AttributeError
      [] OTHER -> AttributeError

\* The module of the model classes (line 36 of the docstring).
ClassModule == <<"y", "o", "u", "r", "_", "a", "p", "p", ".", "m", "o", "d", "e", "l", "s">>

\* str(None)
NoneText == <<"N", "o", "n", "e">>

\* The pieces of object.__repr__ and of the repr of a built-in method.
ObjectAt == <<" ", "o", "b", "j", "e", "c", "t", " ", "a", "t", " ", "0", "x">>

BuiltinMethod == <<"<", "b", "u", "i", "l", "t", "-", "i", "n", " ", "m", "e", "t", "h", "o", "d", " ">>

OfText == <<" ", "o", "f", " ">>

\* The digits repr prints an address with (%p: lower case).
HexDigits == Range(Digits) \cup {"a", "b", "c", "d", "e", "f"}

\* The addresses the allocator can give an object, as repr prints them after
\* "0x": up to 16 hex digits, the first one not 0. Which one a value gets
\* differs from run to run.
Addresses ==
    {a \in Seq(HexDigits) : Len(a) \in 1..16 /\ a[1] # "0"}

\* The addresses of the values in the runs of the specifications: two of
\* Addresses, as CPython prints them on 64-bit Linux.
SampleAddresses ==
    {<<"7", "f", "7", "8", "3", "6", "0", "e", "2", "3", "5", "0">>,
     <<"7", "f", "2", "a", "5", "c", "0", "1", "3", "4", "7", "0">>}

\* str(value) on line 92: the text itself, the digits of an int, "None",
\* and for a plain object (a class that defines no __str__ or __repr__ and
\* inherits none but object's) or a built-in method the repr that carries
\* the address of the value.
Str(value, address) ==
    CASE value.kind = "str" -> value.val
      [] value.kind = "int" -> IntToStr(value.val)
      [] value.kind = "none" -> NoneText
      [] value.kind = "obj" ->
            <<"<">> \o ClassModule \o <<".">> \o value.cls \o ObjectAt
                \o address \o <<">">>
      [] value.kind = "method" ->
            BuiltinMethod \o value.name \o OfText \o value.owner \o ObjectAt
                \o address \o <<">">>

\* An error that names only the first name of the path.
PathErrorFirstName(instance, field_name) ==
    [kind |-> "ValueError",
     path |-> Head(Split(field_name, <<"_", "_">>)),
     cls  |-> instance.cls]

\* The ValueError of lines 89-91: it names the whole path and the class of
\* the instance the resolution started from.
PathError(instance, field_name) ==
    [kind |-> "ValueError", path |-> field_name, cls |-> instance.cls]

\* The loop of lines 84-91 over the names still to look up.
RECURSIVE Walk(_, _, _, _)
Walk(instance, field_name, value, attrs) ==
    IF attrs = <<>> THEN [ok |-> TRUE, value |-> value]
    ELSE LET next == GetAttr(value, Head(attrs))
         IN  IF next.kind = "AttributeError"
             THEN [ok |-> FALSE, error |-> PathError(instance, field_name)]
             ELSE Walk(instance, field_name, next, Tail(attrs))

\* resolve_field_value(instance, field_name): [ok |-> TRUE, value |-> text]
\* or [ok |-> FALSE, error |-> the ValueError raised]. address is where the
\* value the path ends at lies, which shows in the text of an object or of a
\* built-in method.
resolve_field_value(instance, field_name, address) ==
    LET attrs == Split(field_name, <<"_", "_">>)
        end   == Walk(instance, field_name, instance, attrs)
    IN  IF end.ok THEN [ok |-> TRUE, value |-> Str(end.value, address)] ELSE end

\* What random.choice raises on an empty sequence (line 65).
IndexError == [kind |-> "IndexError"]

\* Line 65: the generator calls random.choice(chars) once for each of the
\* size characters, so it raises when chars is empty and size is at least 1
\* (with size 0 chars is never read).
ChoiceRaises(size, chars) == size >= 1 /\ chars = <<>>

\* random_string_generator(size, chars): every outcome of a call, the
\* strings of size characters of chars or the IndexError.
random_string_generator(size, chars) ==
    IF ChoiceRaises(size, chars) THEN {IndexError}
    ELSE [1..size -> Range(chars)]

\* ------------------------------------------------------------ the records

\* instance.pk of an instance that was never saved (None): no row has it.
NonePk == 0

NoneVal == [kind |-> "none", val |-> NonePk]

\* The values of the field the scope filters constrain.
Tenants == {1, 2}

\* Attribute names, as text.
TitleAttr == <<"t", "i", "t", "l", "e">>

TableAttr == <<"t", "a", "b", "l", "e">>

NumberAttr == <<"n", "u", "m", "b", "e", "r">>

PkAttr == <<"p", "k">>

TenantAttr == <<"t", "e", "n", "a", "n", "t">>

\* The names of the two classes, as text.
ArticleClass == <<"A", "r", "t", "i", "c", "l", "e">>

TableClass == <<"T", "a", "b", "l", "e">>

\* The title of the instances: text the normalizer has to lowercase, join
\* and clean.
SampleTitle == <<"7", " ", "X", "!">>

\* The related table of the instances: its number is the int 7.
SampleTable == ObjVal(TableClass, (NumberAttr :> IntVal(7)))

\* An instance of the model class, as the callers hold it: its key and the
\* value of the field the scope filters constrain.
MakeInstance(pk, tenant) == [pk |-> pk, tenant |-> tenant]

\* The object graph of an instance: its own fields and one related object.
ObjectOf(instance) ==
    ObjVal(ArticleClass,
           (PkAttr :> (IF instance.pk = NonePk THEN NoneVal ELSE IntVal(instance.pk)))
        @@ (TenantAttr :> IntVal(instance.tenant))
        @@ (TitleAttr :> StrVal(SampleTitle))
        @@ (TableAttr :> SampleTable))

\* instance.pk
PkOf(instance) == instance.pk

\* The field paths callers pass: two that resolve (a field of the instance,
\* a field of the related object), two that do not (the second name, the
\* first name).
TitlePath == TitleAttr

TableNumberPath == <<"t", "a", "b", "l", "e", "_", "_", "n", "u", "m", "b", "e", "r">>

TableNopePath == <<"t", "a", "b", "l", "e", "_", "_", "n", "o", "p", "e">>

NopePath == <<"n", "o", "p", "e">>

FieldNames == {TitlePath, TableNumberPath, TableNopePath, NopePath}

\* filter_kwargs: None or {} (no constraint), or one equality constraint.
NoFilter == [f \in {} |-> 0]

Filters == {NoFilter} \cup {[tenant |-> t] : t \in Tenants}

\* The charsets callers pass: the empty one, one character, two characters.
Charsets == {<<>>, <<"x">>, <<"x", "y">>}

\* The keyword arguments the project passes on every call. With size 0 the
\* charset is never read, so one charset stands for all of them there: the
\* empty one.
Settings ==
    {s \in [random_digits_size : 0..MaxSuffix, charset : Charsets,
            max_length : 1..MaxLen] :
        s.random_digits_size = 0 => s.charset = <<>>}

\* A row matches the filter when it satisfies every equality constraint.
Matches(row, filter_kwargs) ==
    \A f \in DOMAIN filter_kwargs : row[f] = filter_kwargs[f]

\* The rows in scope without the exclusion of the instance's own row.
ScopedRowsWithOwn(db, filter_kwargs, pk) ==
    {p \in DOMAIN db : Matches(db[p], filter_kwargs)}

\* Klass.objects.filter(**filter_kwargs).exclude(pk=instance.pk): the keys
\* of the rows in scope other than the instance's own.
ScopedRows(db, filter_kwargs, pk) ==
    {p \in DOMAIN db : Matches(db[p], filter_kwargs) /\ p # pk}

\* Lines 138-143: the slugs of the rows in scope that start with base_slug.
ExistingSlugs(db, base_slug, filter_kwargs, pk) ==
    {db[p].slug : p \in {q \in ScopedRows(db, filter_kwargs, pk) :
                           StartsWith(db[q].slug, base_slug)}}

\* ------------------------------------------------------------------ state

\* The callers: Main runs alone in the sequential specification, both run
\* interleaved in the concurrent one.
Main == "main"

Other == "other"

Callers == {Main, Other}

VARIABLES
    settings,     \* random_digits_size, charset and max_length of the calls
    unique_slug,  \* whether the store enforces a unique constraint on slug
    store,        \* the table of Klass: row pk holds [slug, tenant]
    pc,           \* per caller: idle, loop, returned, raised, saved, rejected
    frame         \* per caller: the arguments and locals of its call

vars == <<settings, unique_slug, store, pc, frame>>

\* The frame of a caller that has not called yet.
IdleFrame ==
    [instance       |-> MakeInstance(NonePk, 1),
     field_name     |-> <<>>,
     filter_kwargs  |-> NoFilter,
     base_value     |-> <<>>,
     raw_slug       |-> <<>>,
     base_slug      |-> <<>>,
     existing_slugs |-> {},
     result         |-> <<>>,
     error          |-> NoneVal,
     draws          |-> 0,
     queries        |-> 0]

\* ------------------------------------------------- generate_unique_slug

\* A base slug cut one character short.
BaseSlugShort(raw_slug, max_length) == SliceTo(raw_slug, max_length - 1)

\* Line 130: raw_slug[:max_length]
BaseSlug(raw_slug, max_length) == SliceTo(raw_slug, max_length)

\* A candidate that lacks its suffix.
NewSlugNoSuffix(base_slug, suffix, max_length) ==
    SliceTo(base_slug, max_length - Len(suffix))

\* Lines 155-159: the base trimmed to make room for the suffix, then the
\* suffix.
NewSlug(base_slug, suffix, max_length) ==
    LET allowed_base_length == max_length - Len(suffix)
        trimmed_base        == SliceTo(base_slug, allowed_base_length)
    IN  trimmed_base \o suffix

\* Line 152: the suffixes one draw can produce (none when the generator
\* raises).
Suffixes(random_digits_size, charset) ==
    IF ChoiceRaises(random_digits_size, charset) THEN {}
    ELSE {<<"-">> \o r :
            r \in random_string_generator(random_digits_size, charset)}

\* The test inverted.
IsUniqueInverted(slug, existing_slugs) == slug \in existing_slugs

\* Lines 146 and 162: the test that the slug is not among the existing ones.
IsUnique(slug, existing_slugs) == slug \notin existing_slugs

\* Lines 124-147, with resolved the outcome of resolve_field_value on line
\* 124: from the call to the fast-path return, the raise of
\* resolve_field_value, or the entry of the loop. Yields the caller's next
\* pc and frame.
Enter(instance, field_name, filter_kwargs, max_length, db, resolved) ==
    LET args     == [IdleFrame EXCEPT !.instance = instance,
                                      !.field_name = field_name,
                                      !.filter_kwargs = filter_kwargs]
    IN  IF ~resolved.ok
        THEN [pc |-> "raised", frame |-> [args EXCEPT !.error = resolved.error]]
        ELSE LET raw_slug       == slugify(resolved.value)
                 base_slug      == BaseSlug(raw_slug, max_length)
                 existing_slugs == ExistingSlugs(db, base_slug, filter_kwargs,
                                                 PkOf(instance))
                 locals         == [args EXCEPT !.base_value = resolved.value,
                                                !.raw_slug = raw_slug,
                                                !.base_slug = base_slug,
                                                !.existing_slugs = existing_slugs,
                                                !.queries = 1]
             IN  IF IsUnique(base_slug, existing_slugs)
                 THEN [pc |-> "returned",
                       frame |-> [locals EXCEPT !.result = base_slug]]
                 ELSE [pc |-> "loop", frame |-> locals]

\* A caller calls generate_unique_slug for a new instance or for a saved
\* one, with a field path among names. The outcomes are those of every
\* address among addresses that the value of the path may lie at.
CallIn(c, names, addresses) ==
    /\ pc[c] = "idle"
    /\ \E pk \in {NonePk} \cup DOMAIN store, tenant \in Tenants,
          field_name \in names, filter_kwargs \in Filters :
          /\ pk # NonePk => tenant = store[pk].tenant
          /\ \E resolved \in
                 {resolve_field_value(ObjectOf(MakeInstance(pk, tenant)),
                                      field_name, address) :
                     address \in addresses} :
                 LET out == Enter(MakeInstance(pk, tenant), field_name,
                                  filter_kwargs, settings.max_length, store,
                                  resolved)
                 IN  /\ pc' = [pc EXCEPT ![c] = out.pc]
                     /\ frame' = [frame EXCEPT ![c] = out.frame]
    /\ UNCHANGED <<settings, unique_slug, store>>

Call(c) == CallIn(c, FieldNames, SampleAddresses)

\* An iteration that reads the existing slugs again.
DrawSuffixRequery(c, suffix) ==
    /\ pc[c] = "loop"
    /\ suffix \in Suffixes(settings.random_digits_size, settings.charset)
    /\ LET new_slug == NewSlug(frame[c].base_slug, suffix, settings.max_length)
           existing == ExistingSlugs(store, frame[c].base_slug,
                                     frame[c].filter_kwargs, PkOf(frame[c].instance))
           drawn    == [frame[c] EXCEPT !.draws = Min(@ + 1, MaxDraws),
                                        !.existing_slugs = existing,
                                        !.queries = Min(@ + 1, 2)]
       IN  IF IsUnique(new_slug, existing)
           THEN /\ pc' = [pc EXCEPT ![c] = "returned"]
                /\ frame' = [frame EXCEPT ![c] = [drawn EXCEPT !.result = new_slug]]
           ELSE /\ pc' = pc
                /\ frame' = [frame EXCEPT ![c] = drawn]
    /\ UNCHANGED <<settings, unique_slug, store>>

\* Lines 152-163: one iteration of the loop with the suffix it drew.
DrawSuffix(c, suffix) ==
    /\ pc[c] = "loop"
    /\ suffix \in Suffixes(settings.random_digits_size, settings.charset)
    /\ LET new_slug == NewSlug(frame[c].base_slug, suffix, settings.max_length)
           drawn    == [frame[c] EXCEPT !.draws = Min(@ + 1, MaxDraws)]
       IN  IF IsUnique(new_slug, frame[c].existing_slugs)
           THEN /\ pc' = [pc EXCEPT ![c] = "returned"]
                /\ frame' = [frame EXCEPT ![c] = [drawn EXCEPT !.result = new_slug]]
           ELSE /\ pc' = pc
                /\ frame' = [frame EXCEPT ![c] = drawn]
    /\ UNCHANGED <<settings, unique_slug, store>>

\* Line 152 when the generator raises: the IndexError leaves
\* generate_unique_slug, which returns no slug.
DrawRaises(c) ==
    /\ pc[c] = "loop"
    /\ ChoiceRaises(settings.random_digits_size, settings.charset)
    /\ pc' = [pc EXCEPT ![c] = "index_error"]
    /\ frame' = [frame EXCEPT ![c].error = IndexError]
    /\ UNCHANGED <<settings, unique_slug, store>>

\* Lines 150-163: one iteration of the loop, drawing any suffix.
Draw(c) ==
    IF ChoiceRaises(settings.random_digits_size, settings.charset)
    THEN DrawRaises(c)
    ELSE \E suffix \in Suffixes(settings.random_digits_size, settings.charset) :
            DrawSuffix(c, suffix)

\* The unique constraint of the store: no other row holds the slug.
WriteAllowed(db, pk, slug) ==
    ~unique_slug \/ \A p \in DOMAIN db : p # pk => db[p].slug # slug

\* What the caller still holds once generate_unique_slug has returned and
\* the instance is saved: the instance, its filter and the slug (the locals
\* of the call are gone).
Kept(f, instance) ==
    [IdleFrame EXCEPT !.instance = instance,
                      !.filter_kwargs = f.filter_kwargs,
                      !.result = f.result,
                      !.draws = f.draws,
                      !.queries = f.queries]

\* The caller assigns the returned slug to the instance and saves it: a new
\* row for a new instance (while the table holds fewer than capacity rows),
\* the row's slug for a saved one.
SaveIn(c, capacity) ==
    /\ pc[c] = "returned"
    /\ LET instance == frame[c].instance
           pk       == PkOf(instance)
           tenant   == instance.tenant
           slug     == frame[c].result
       IN  /\ pk = NonePk => Len(store) < capacity
           /\ IF ~WriteAllowed(store, pk, slug)
              THEN /\ pc' = [pc EXCEPT ![c] = "rejected"]
                   /\ frame' = [frame EXCEPT ![c] = Kept(@, instance)]
                   /\ store' = store
              ELSE /\ pc' = [pc EXCEPT ![c] = "saved"]
                   /\ IF pk = NonePk
                      THEN /\ store' = Append(store, [slug |-> slug, tenant |-> tenant])
                           /\ frame' = [frame EXCEPT ![c] =
                                          Kept(@, MakeInstance(Len(store) + 1, tenant))]
                      ELSE /\ store' = [store EXCEPT ![pk].slug = slug]
                           /\ frame' = [frame EXCEPT ![c] = Kept(@, instance)]
    /\ UNCHANGED <<settings, unique_slug>>

Save(c) == SaveIn(c, MaxRecords)

\* The caller's handler ends (after the save, the rejected save or the
\* error, or without saving the instance): its frame is gone and it may
\* call again.
Finish(c) ==
    /\ pc[c] \in {"raised", "index_error", "saved", "rejected", "returned"}
    /\ pc' = [pc EXCEPT ![c] = "idle"]
    /\ frame' = [frame EXCEPT ![c] = IdleFrame]
    /\ UNCHANGED <<settings, unique_slug, store>>

\* ---------------------------------------------------------- specifications

Init ==
    /\ settings \in Settings
    /\ unique_slug = FALSE
    /\ store = <<>>
    /\ pc = [c \in Callers |-> "idle"]
    /\ frame = [c \in Callers |-> IdleFrame]

\* Strictly sequential use: one caller, each call saved before the next.
Next == Call(Main) \/ Draw(Main) \/ Save(Main) \/ Finish(Main)

Spec == Init /\ [][Next]_vars

\* Every suffix the settings allow.
AllSuffixes == UNION {Suffixes(s.random_digits_size, s.charset) : s \in Settings}

\* Fair random draws: a suffix the call can draw (DrawSuffix is enabled only
\* for the suffixes of the call's size and charset) and whose draw would end
\* the loop is not avoided forever.
FairDraws == \A suffix \in AllSuffixes : WF_vars(DrawSuffix(Main, suffix))

SpecFair == Init /\ [][Next]_vars /\ FairDraws

\* The settings of the interleaved runs: the longest slugs, one-character
\* suffixes over the two-character charset.
ConcSettings ==
    {s \in Settings : /\ s.max_length = MaxLen
                      /\ s.random_digits_size = 1
                      /\ s.charset = <<"x", "y">>}

InitConc ==
    /\ settings \in ConcSettings
    /\ unique_slug \in BOOLEAN
    /\ store = <<>>
    /\ pc = [c \in Callers |-> "idle"]
    /\ frame = [c \in Callers |-> IdleFrame]

\* The field paths of the interleaved runs: one that resolves, one that
\* does not.
ConcFieldNames == {TitlePath, NopePath}

\* Two callers whose calls and saves interleave.
NextConc ==
    \E c \in Callers :
        \/ CallIn(c, ConcFieldNames, SampleAddresses)
        \/ Draw(c) \/ Save(c) \/ Finish(c)

SpecConc == InitConc /\ [][NextConc]_vars

\* Sequential use of a table with room for one more row.
NextRows == Call(Main) \/ Draw(Main) \/ SaveIn(Main, MaxRecords + 1) \/ Finish(Main)

SpecRows == Init /\ [][NextRows]_vars

\* ------------------------------------------------------------------ claims
\* In Spec and SpecRows one caller runs alone, so while its call is in the
\* loop or has returned, store is still the store of call time.

\* The first n characters of s (none for n <= 0).
FirstChars(s, n) == [i \in 1..Min(n, Len(s)) |-> s[i]]

\* The last n characters of s, for n <= Len(s).
LastChars(s, n) == [i \in 1..n |-> s[Len(s) - n + i]]

\* The texts of exactly n characters of the charset.
TextsOf(n, charset) == [1..n -> {charset[i] : i \in 1..Len(charset)}]

\* The normalized form the paths that resolve must yield: "7 X!" becomes
\* "7-x", the int 7 becomes "7".
ExpectedSlug(field_name) ==
    IF field_name = TitlePath THEN <<"7", "-", "x">> ELSE <<"7">>

\* A row is in the scope of caller c's call: it satisfies the filter and is
\* not the row of the instance.
InScope(c, p) ==
    /\ p # frame[c].instance.pk
    /\ \A f \in DOMAIN frame[c].filter_kwargs :
          store[p][f] = frame[c].filter_kwargs[f]

\* The identifiers the other records in scope hold.
InScopeSlugs(c) == {store[p].slug : p \in {q \in DOMAIN store : InScope(c, q)}}

\* C1: every identifier generate_unique_slug returns differs from every
\* identifier stored, at call time, on another record in scope.
C1_ReturnedIsUnused ==
    \A c \in Callers : pc[c] = "returned" => frame[c].result \notin InScopeSlugs(c)

\* C2: with calls and saves strictly in sequence from an empty store, the
\* record just saved holds an identifier that differs from the identifier of
\* every other record matching the scope filter of its call.
C2_SavedAreDistinct ==
    pc[Main] = "saved" =>
        \A p \in DOMAIN store :
            InScope(Main, p) => store[p].slug # frame[Main].result

\* C3: the returned identifier is never longer than max_length, on the fast
\* path and on the collision path, whatever the suffix size.
C3_LengthBound ==
    \A c \in Callers :
        pc[c] = "returned" => Len(frame[c].result) <= settings.max_length

\* C4: when no other record in scope holds the base candidate (the first
\* max_length characters of the normalized value), exactly the base
\* candidate is returned, and no suffix was drawn.
C4_FastPath ==
    \A c \in Callers :
        LET base == FirstChars(ExpectedSlug(frame[c].field_name), settings.max_length)
        IN  (pc[c] \in {"loop", "returned"} /\ base \notin InScopeSlugs(c))
                => /\ pc[c] = "returned"
                   /\ frame[c].result = base
                   /\ frame[c].draws = 0

\* C4's case: the base candidate is returned although another record in
\* scope holds an identifier that starts with it.
C4_Witness ==
    /\ pc[Main] = "returned"
    /\ frame[Main].draws = 0
    /\ frame[Main].result = frame[Main].base_slug
    /\ \E s \in InScopeSlugs(Main) :
          /\ Len(s) > Len(frame[Main].base_slug)
          /\ FirstChars(s, Len(frame[Main].base_slug)) = frame[Main].base_slug

\* C5: a result of the collision path is T-R with R suffix_size characters
\* of the charset and T the first max_length - (suffix_size + 1) characters
\* of the base candidate; so it is max_length long when the base candidate
\* has at least that many characters.
C5_SuffixStructure ==
    \A c \in Callers :
        LET k    == settings.random_digits_size
            room == settings.max_length - (k + 1)
            base == frame[c].base_slug
        IN  (pc[c] = "returned" /\ frame[c].draws > 0)
                => /\ \E r \in TextsOf(k, settings.charset) :
                         frame[c].result = FirstChars(base, room) \o <<"-">> \o r
                   /\ Len(base) >= room
                         => Len(frame[c].result) = settings.max_length

\* C6: a path whose names all resolve yields the text of the terminal value;
\* a path with a name that does not resolve raises the error that carries
\* the whole path and the class of the instance, and generate_unique_slug
\* then fails with it: no store query, no slug, no partial value.
C6_PathResolution ==
    \A c \in Callers :
        /\ pc[c] = "raised" =>
              /\ frame[c].field_name \in {TableNopePath, NopePath}
              /\ frame[c].error = [kind |-> "ValueError",
                                   path |-> frame[c].field_name,
                                   cls  |-> ArticleClass]
              /\ frame[c].queries = 0
              /\ frame[c].base_value = <<>>
              /\ frame[c].result = <<>>
        /\ pc[c] \in {"loop", "returned"} =>
              \/ /\ frame[c].field_name = TitlePath
                 /\ frame[c].base_value = <<"7", " ", "X", "!">>
              \/ /\ frame[c].field_name = TableNumberPath
                 /\ frame[c].base_value = <<"7">>

\* C6's case: the second name of the path does not resolve, with rows in
\* the store that the call never read.
C6_Witness ==
    /\ pc[Main] = "raised"
    /\ frame[Main].field_name = TableNopePath
    /\ frame[Main].error.path = TableNopePath
    /\ store # <<>>

\* C7: a call collides only with a row that satisfies every constraint of
\* the filter and is not the instance's own: when the base slug is held
\* only by rows out of scope or by the instance's own row, it is returned
\* unmodified.
C7_ScopeOfCollisions ==
    \A c \in Callers :
        pc[c] \in {"loop", "returned"} =>
            LET holders == {p \in DOMAIN store : store[p].slug = frame[c].base_slug}
                foreign == {p \in holders :
                              \/ p = frame[c].instance.pk
                              \/ \E f \in DOMAIN frame[c].filter_kwargs :
                                    store[p][f] # frame[c].filter_kwargs[f]}
            IN  IF holders = foreign
                THEN /\ pc[c] = "returned"
                     /\ frame[c].result = frame[c].base_slug
                     /\ frame[c].draws = 0
                ELSE pc[c] = "loop" \/ frame[c].draws > 0

\* C7's case: the slug is regenerated for a saved record that holds its
\* base slug while a record of another tenant holds it too, and the base
\* slug is returned.
C7_Witness ==
    /\ pc[Main] = "returned"
    /\ frame[Main].instance.pk \in DOMAIN store
    /\ store[frame[Main].instance.pk].slug = frame[Main].base_slug
    /\ frame[Main].result = frame[Main].base_slug
    /\ "tenant" \in DOMAIN frame[Main].filter_kwargs
    /\ \E p \in DOMAIN store :
          /\ p # frame[Main].instance.pk
          /\ store[p].slug = frame[Main].base_slug
          /\ store[p].tenant # frame[Main].filter_kwargs.tenant

\* The candidate the loop forms from a suffix, restated: the base loses
\* what does not fit beside the suffix (Python's slice drops the last
\* characters when the room is negative).
CandidateOf(base, suffix, max_length) ==
    LET room == max_length - Len(suffix)
    IN  FirstChars(base, IF room >= 0 THEN room ELSE Len(base) + room) \o suffix

\* Every candidate caller c's loop can form is among its existing slugs.
AllTaken(c) ==
    \A r \in TextsOf(settings.random_digits_size, settings.charset) :
        CandidateOf(frame[c].base_slug, <<"-">> \o r, settings.max_length)
            \in frame[c].existing_slugs

\* C8: under fair draws a call in the loop returns if some candidate it can
\* form is not among the existing slugs; when all of them are, it never
\* returns: it stays in the loop for ever, or, when no candidate can be
\* formed at all because the generator raises, it leaves with the IndexError.
C8_LoopTermination ==
    /\ (pc[Main] = "loop" /\ ~AllTaken(Main)) ~> (pc[Main] = "returned")
    /\ [][(pc[Main] = "loop" /\ AllTaken(Main)) =>
            \/ pc'[Main] = "loop"
            \/ /\ ChoiceRaises(settings.random_digits_size, settings.charset)
               /\ pc'[Main] = "index_error"]_vars

\* C8's case: with suffix size 0 the one candidate is taken and the call
\* has drawn without returning.
C8_Witness ==
    /\ pc[Main] = "loop"
    /\ settings.random_digits_size = 0
    /\ AllTaken(Main)
    /\ frame[Main].draws >= 1

\* C9: a call reads the existing slugs once, before the fast-path test,
\* keeps that snapshot through the loop and never writes to the store (only
\* a caller's save does); a unique constraint of the store keeps the slugs
\* distinct.
C9_SnapshotOnce ==
    /\ [][/\ \A c \in Callers :
               (pc[c] = "loop" /\ pc'[c] \in {"loop", "returned"}) =>
                   /\ frame'[c].existing_slugs = frame[c].existing_slugs
                   /\ frame'[c].queries = frame[c].queries
          /\ store' # store =>
               \E c \in Callers : pc[c] = "returned" /\ pc'[c] = "saved"]_vars
    /\ [](\A c \in Callers : pc[c] \in {"loop", "returned"} => frame[c].queries = 1)
    /\ [](unique_slug =>
            \A p, q \in DOMAIN store : p # q => store[p].slug # store[q].slug)

\* C9's case: without a unique constraint two callers, each on the fast
\* path, have saved two records of one scope with the same slug.
C9_Witness ==
    /\ ~unique_slug
    /\ \A c \in Callers : pc[c] = "saved" /\ frame[c].draws = 0
    /\ frame[Main].instance.pk # frame[Other].instance.pk
    /\ store[frame[Main].instance.pk].slug = store[frame[Other].instance.pk].slug
    /\ InScope(Main, frame[Other].instance.pk)
    /\ InScope(Other, frame[Main].instance.pk)

\* The premises of C10: the other records in scope hold the base slug and
\* nothing else, and the suffix size is at least 1.
OnlyBaseTaken(c) ==
    /\ pc[c] \in {"loop", "returned", "index_error"}
    /\ settings.random_digits_size >= 1
    /\ InScopeSlugs(c) = {frame[c].base_slug}

\* The loop has returned on its first draw, or has not drawn yet; it has not
\* left with an error.
FirstDrawReturns(c) ==
    /\ pc[c] = "loop" => frame[c].draws = 0
    /\ pc[c] = "returned" => frame[c].draws = 1
    /\ pc[c] # "index_error"

\* C10 as stated: when only the base slug is taken, the loop returns on its
\* first draw, whatever the charset, the suffix size and max_length.
C10_FirstDrawAlways ==
    \A c \in Callers : OnlyBaseTaken(c) => FirstDrawReturns(c)

\* The base slug is itself a candidate of the loop: it is max_length long
\* and ends with a hyphen and suffix_size characters of the charset.
BaseIsCandidate(c) ==
    LET k    == settings.random_digits_size
        base == frame[c].base_slug
    IN  /\ Len(base) = settings.max_length
        /\ Len(base) >= k + 1
        /\ \E r \in TextsOf(k, settings.charset) :
              LastChars(base, k + 1) = <<"-">> \o r

\* C10 amended: when only the base slug is taken, the charset is not empty
\* and the base slug is not itself a candidate of the loop, the loop returns
\* on its first draw; with the empty charset the first draw raises the
\* IndexError and the call returns no slug.
C10_FirstDraw ==
    \A c \in Callers :
        /\ (OnlyBaseTaken(c) /\ settings.charset # <<>> /\ ~BaseIsCandidate(c))
              => FirstDrawReturns(c)
        /\ (OnlyBaseTaken(c) /\ settings.charset = <<>>)
              => /\ pc[c] # "returned"
                 /\ frame[c].draws = 0
                 /\ frame[c].result = <<>>
                 /\ pc[c] = "index_error" => frame[c].error = IndexError

\* C10's case: the base slug, which is not a candidate of the loop, was
\* trimmed to make room for the suffix and the first draw returned.
C10_Witness ==
    /\ OnlyBaseTaken(Main)
    /\ ~BaseIsCandidate(Main)
    /\ pc[Main] = "returned"
    /\ frame[Main].draws = 1
    /\ Len(frame[Main].base_slug) >
          settings.max_length - (settings.random_digits_size + 1)

====
